---- MODULE Spec2Model ----
(***************************************************************************)
(* OTP issuance and verification of main.py (send_otp, verify_otp,         *)
(* is_valid_phone) over the "otp" collection.                              *)
(*                                                                         *)
(* Strings are sequences of one-character strings.  Time is counted in     *)
(* minutes.  A request of verify_otp takes two steps, one per storage      *)
(* round trip: the find_one lookup and the update_one that marks the       *)
(* record consumed; the checks between them are local to the request.      *)
(***************************************************************************)
EXTENDS Integers, Sequences, FiniteSets, TLC

\* ------------------------------------------------------------------ bounds
MaxRecords == 2
MaxPhoneDigits == 17

Workers == {1, 2}

\* ------------------------------------------------------- program constants
TTL_MINUTES == 10
CODE_MODULUS == 1000000
CODE_WIDTH == 6
PHONE_MIN_DIGITS == 10
PHONE_MAX_DIGITS == 15

\* ------------------------------------------------------------ str helpers
Whitespace == {" "}

AsciiDigits == {"0", "1", "2", "3", "4", "5", "6", "7", "8", "9"}

\* \d of a str pattern also matches the non-ASCII decimal digits;
\* "U+0663" stands for one such character (ARABIC-INDIC DIGIT THREE).
UnicodeDigits == AsciiDigits \cup {"U+0663"}

LowerChar(c) ==
    CASE c = "U" -> "u"
      [] c = "X" -> "x"
      [] c = "V" -> "v"
      [] OTHER -> c

lower(s) == [i \in DOMAIN s |-> LowerChar(s[i])]

RECURSIVE lstrip(_)
lstrip(s) ==
    IF s # <<>> /\ Head(s) \in Whitespace THEN lstrip(Tail(s)) ELSE s

RECURSIVE rstrip(_)
rstrip(s) ==
    IF s # <<>> /\ s[Len(s)] \in Whitespace
    THEN rstrip(SubSeq(s, 1, Len(s) - 1))
    ELSE s

strip(s) == rstrip(lstrip(s))

DigitChars == <<"0", "1", "2", "3", "4", "5", "6", "7", "8", "9">>

RECURSIVE Decimal(_)
Decimal(n) ==
    IF n < 10
    THEN <<DigitChars[n + 1]>>
    ELSE Append(Decimal(n \div 10), DigitChars[(n % 10) + 1])

RECURSIVE ZeroPad(_, _)
ZeroPad(s, width) ==
    IF Len(s) >= width THEN s ELSE ZeroPad(<<"0">> \o s, width)

\* f"{uuid.uuid4().int % 1000000:06d}"
format_code(uuid_int) == ZeroPad(Decimal(uuid_int % CODE_MODULUS), CODE_WIDTH)

\* re.fullmatch(r"(\+?\d{10,15})", value.strip())
is_valid_phone(value) ==
    LET s == strip(value)
        digits == IF s # <<>> /\ Head(s) = "+" THEN Tail(s) ELSE s
    IN  /\ Len(digits) >= PHONE_MIN_DIGITS
        /\ Len(digits) <= PHONE_MAX_DIGITS
        /\ \A i \in DOMAIN digits : digits[i] \in UnicodeDigits

\* ----------------------------------------------------------------- inputs
Repeat(c, n) == [i \in 1..n |-> c]

\* arguments of is_valid_phone: a prefix, a run of digits, a suffix
PhonePrefixes == { <<>>, <<"+">>, <<" ", "+">>, <<"+", "+">> }
PhoneSuffixes == { <<>>, <<" ">>, <<"a">>, <<"U+0663">> }
PhoneInputs ==
    { pre \o Repeat("7", n) \o suf :
        pre \in PhonePrefixes, n \in 0..MaxPhoneDigits, suf \in PhoneSuffixes }

EmailLower == <<"u", "@", "x", ".", "c">>
EmailMixed == <<" ", "U", "@", "X", ".", "c", " ">>
OtherEmail == <<"v", "@", "x", ".", "c">>
NotAnEmail == <<"n", "o">>
PhoneOk == <<"+", "1", "5", "5", "5", "1", "2", "3", "4", "5", "6", "7">>
PhonePadded == <<" ">> \o PhoneOk
PhoneShort == <<"1", "2", "3", "4", "5">>

SendRequests ==
    { [identifier |-> EmailMixed, via |-> "email"],
      [identifier |-> NotAnEmail, via |-> "email"],
      [identifier |-> PhonePadded, via |-> "phone"],
      [identifier |-> PhoneShort, via |-> "phone"] }
VerifyRequests ==
    { [identifier |-> EmailMixed, otp |-> format_code(4213)],
      [identifier |-> EmailMixed, otp |-> format_code(123456)],
      [identifier |-> OtherEmail, otp |-> format_code(4213)],
      [identifier |-> PhoneOk, otp |-> format_code(4213)] }

\* instants at which a request reads the clock: issuance, the last minute of a
\* code issued at 0, and the minute after
Instants == {0, TTL_MINUTES, TTL_MINUTES + 1}

\* values of uuid.uuid4().int; 4213 and 1004213 give the same code
UuidInts == {4213, 1004213, 123456}

\* ------------------------------------------------------- stored expiries
Datetime(t) == [kind |-> "datetime", form |-> "aware", t |-> t]
NoValue == [kind |-> "none", form |-> "none", t |-> 0]
StrValue(form, t) == [kind |-> "str", form |-> form, t |-> t]

\* datetime.fromisoformat(text)
fromisoformat(text) ==
    IF text.form = "iso_aware"
    THEN [ok |-> TRUE, value |-> [kind |-> "datetime", form |-> "aware", t |-> text.t]]
    ELSE IF text.form = "iso_naive"
    THEN [ok |-> TRUE, value |-> [kind |-> "datetime", form |-> "naive", t |-> text.t]]
    ELSE [ok |-> FALSE, value |-> text]

\* expiries a record written by another writer of the collection can carry
LegacyExpiries ==
    { StrValue("iso_aware", TTL_MINUTES),
      StrValue("garbage", 0), StrValue("empty", 0), NoValue }

LegacyRecord(e) ==
    [ identifier |-> EmailLower, via |-> "email", code |-> format_code(123456),
      consumed |-> FALSE, expires_at |-> e,
      updated_at |-> NoValue ]

InitialStores == { <<>> } \cup { <<LegacyRecord(e)>> : e \in LegacyExpiries }

\* -------------------------------------------------------------- responses
NoCode == <<>>
NoDoc == [id |-> 0]
NoReq == [identifier |-> <<>>, otp |-> <<>>]
NoResp == [status |-> 0, detail |-> "", token |-> FALSE, doc_id |-> 0]
NoSend == [identifier |-> <<>>, via |-> "", status |-> 0, detail |-> "", debug_code |-> NoCode]
NoPhone == [called |-> FALSE, value |-> <<>>, result |-> FALSE]

VARIABLES
    dbConfigured,     \* database.db is not None
    emailStrRaises,   \* the installed pydantic's EmailStr(...) raises when called
    otp,              \* the "otp" collection, in insertion order; _id = position
    now,              \* datetime.now(timezone.utc), in minutes
    pc,               \* per worker: "idle" or "found" (between find_one and update_one)
    req,              \* per worker: body of its last verify-otp request
    doc,              \* per worker: the document find_one returned
    resp,             \* per worker: response of its last verify-otp request
    sent,             \* the last send-otp request and its response
    sinceSent,        \* history: how the first verify-otp naming the identifier and
                      \* code of `sent` since it was answered ended: "none" so far,
                      \* "ok" or "failed"
    phone             \* the last call of is_valid_phone made on its own: argument, result

vars == <<dbConfigured, emailStrRaises, otp, now, pc, req, doc, resp, sent, sinceSent, phone>>

Init ==
    /\ dbConfigured \in BOOLEAN
    /\ emailStrRaises \in BOOLEAN
    /\ otp \in (IF dbConfigured THEN InitialStores ELSE { <<>> })
    /\ now = 0
    /\ pc = [w \in Workers |-> "idle"]
    /\ req = [w \in Workers |-> NoReq]
    /\ doc = [w \in Workers |-> NoDoc]
    /\ resp = [w \in Workers |-> NoResp]
    /\ sent = NoSend
    /\ sinceSent = "none"
    /\ phone = NoPhone

\* ---------------------------------------------------------------- send_otp
\* lines 53-61: "ok" or the detail of the 400 response
ValidateIdentifier(identifier, via) ==
    IF via = "email"
    THEN (IF emailStrRaises THEN "Invalid email address" ELSE "ok")
    ELSE (IF is_valid_phone(identifier) THEN "ok" ELSE "Invalid phone number")

StoredIdentifier_AsSubmitted(identifier, via) == identifier

\* line 72
StoredIdentifier(identifier, via) ==
    IF via = "email" THEN lower(identifier) ELSE identifier

NewDocument_NoTtl(identifier, via, code) ==
    [ identifier |-> IF via = "email" THEN lower(identifier) ELSE identifier,
      via |-> via, code |-> code, consumed |-> FALSE,
      expires_at |-> Datetime(now), updated_at |-> Datetime(now) ]

\* lines 69-78: the document handed to create_document
NewDocument(identifier, via, code) ==
    [ identifier |-> StoredIdentifier(identifier, via), via |-> via, code |-> code,
      consumed |-> FALSE, expires_at |-> Datetime(now + TTL_MINUTES),
      updated_at |-> Datetime(now) ]

\* database.create_document: inserts the whole document or raises
create_document(coll, document, fails) ==
    IF fails THEN coll ELSE Append(coll, document)

SendResponse_CodeOnFailure(body, validation, fails, code) ==
    IF validation # "ok"
    THEN [identifier |-> body.identifier, via |-> body.via, status |-> 400,
          detail |-> validation, debug_code |-> NoCode]
    ELSE IF fails
    THEN [identifier |-> body.identifier, via |-> body.via, status |-> 500,
          detail |-> "Database error", debug_code |-> code]
    ELSE [identifier |-> body.identifier, via |-> body.via, status |-> 200,
          detail |-> "sent", debug_code |-> code]

\* lines 79-86
SendResponse(body, validation, fails, code) ==
    IF validation # "ok"
    THEN [identifier |-> body.identifier, via |-> body.via, status |-> 400,
          detail |-> validation, debug_code |-> NoCode]
    ELSE IF fails
    THEN [identifier |-> body.identifier, via |-> body.via, status |-> 500,
          detail |-> "Database error", debug_code |-> NoCode]
    ELSE [identifier |-> body.identifier, via |-> body.via, status |-> 200,
          detail |-> "sent", debug_code |-> code]

SendOtp ==
    /\ Len(otp) < MaxRecords
    /\ \E body \in SendRequests, n \in UuidInts, writeFails \in BOOLEAN :
         LET identifier == strip(body.identifier)
             via == body.via
             validation == ValidateIdentifier(identifier, via)
             code == format_code(n)
             fails == writeFails \/ ~dbConfigured
         IN  /\ otp' = IF validation = "ok"
                       THEN create_document(otp, NewDocument(identifier, via, code), fails)
                       ELSE otp
             /\ sent' = SendResponse(body, validation, fails, code)
    /\ sinceSent' = "none"
    /\ UNCHANGED <<dbConfigured, emailStrRaises, now, pc, req, doc, resp, phone>>

\* -------------------------------------------------------------- verify_otp
FindMatches_AnyCode(coll, identifier, q_identifier, code) ==
    { i \in DOMAIN coll : coll[i].identifier \in {q_identifier, identifier} }

FindMatches_AnyIdentifier(coll, identifier, q_identifier, code) ==
    { i \in DOMAIN coll : coll[i].code = code }

\* lines 100-111: the _ids the find_one filter matches
FindMatches(coll, identifier, q_identifier, code) ==
    { i \in DOMAIN coll :
        /\ coll[i].identifier \in {q_identifier, identifier}
        /\ coll[i].code = code }

Snapshot(coll, i) ==
    [ id |-> i, consumed |-> coll[i].consumed, expires_at |-> coll[i].expires_at ]

\* lines 91-111; find_one has no sort, any matching document may come back.
\* A request is taken by the lowest idle worker.
VerifyFind(w) ==
    /\ pc[w] = "idle"
    /\ \A v \in Workers : v < w => pc[v] = "found"
    /\ \E body \in VerifyRequests :
         LET identifier == strip(body.identifier)
             q_identifier == lower(identifier)
             matches == FindMatches(otp, identifier, q_identifier, body.otp)
         IN  IF ~dbConfigured
             THEN /\ req' = [req EXCEPT ![w] = body]
                  /\ resp' = [resp EXCEPT ![w] =
                       [status |-> 500, detail |-> "Database not configured",
                        token |-> FALSE, doc_id |-> 0]]
                  /\ UNCHANGED <<pc, doc>>
             ELSE /\ req' = [req EXCEPT ![w] = body]
                  /\ resp' = [resp EXCEPT ![w] = NoResp]
                  /\ pc' = [pc EXCEPT ![w] = "found"]
                  /\ IF matches = {}
                     THEN doc' = [doc EXCEPT ![w] = NoDoc]
                     ELSE \E i \in matches : doc' = [doc EXCEPT ![w] = Snapshot(otp, i)]
    /\ UNCHANGED <<dbConfigured, emailStrRaises, otp, now, sent, sinceSent, phone>>

ExpiryCheck_Reversed(stored, t) ==
    IF stored.kind = "datetime"
    THEN (IF t < stored.t THEN "expired" ELSE "ok")
    ELSE "expired"

ExpiryCheck_Inclusive(stored, t) ==
    IF stored.kind = "datetime"
    THEN (IF t >= stored.t THEN "expired" ELSE "ok")
    ELSE "expired"

\* lines 119-126: "ok", "expired", or "TypeError" when the comparison raises
ExpiryCheck(stored, t) ==
    LET parsed == IF stored.kind = "str" THEN fromisoformat(stored)
                  ELSE [ok |-> FALSE, value |-> stored]
        expires_at == IF parsed.ok THEN parsed.value ELSE stored
        falsy == expires_at.kind = "none"
                 \/ (expires_at.kind = "str" /\ expires_at.form = "empty")
    IN  IF falsy THEN "expired"
        ELSE IF expires_at.kind = "str" THEN "TypeError"
        ELSE IF expires_at.form = "naive" THEN "TypeError"
        ELSE IF t > expires_at.t THEN "expired"
        ELSE "ok"

VerifyOutcome_ExpiryFirst(d, t) ==
    IF d = NoDoc THEN "Invalid code"
    ELSE IF d.expires_at.kind # "datetime" \/ t > d.expires_at.t THEN "Code expired"
    ELSE IF d.consumed THEN "Code already used"
    ELSE "verified"

\* lines 113-126: "verified" or the detail of the error response
VerifyOutcome(d, t) ==
    IF d = NoDoc THEN "Invalid code"
    ELSE IF d.consumed THEN "Code already used"
    ELSE IF ExpiryCheck(d.expires_at, t) = "expired" THEN "Code expired"
    ELSE IF ExpiryCheck(d.expires_at, t) = "TypeError" THEN "Internal Server Error"
    ELSE "verified"

update_one_Toggle(coll, id, t) ==
    [coll EXCEPT ![id] = [@ EXCEPT !.consumed = ~@, !.updated_at = Datetime(t)]]

update_one_Many(coll, id, t) ==
    [i \in DOMAIN coll |-> [coll[i] EXCEPT !.consumed = TRUE, !.updated_at = Datetime(t)]]

update_one_Refresh(coll, id, t) ==
    [coll EXCEPT ![id] = [@ EXCEPT !.consumed = TRUE, !.updated_at = Datetime(t),
                                   !.expires_at = Datetime(t + TTL_MINUTES)]]

\* line 129
update_one(coll, id, t) ==
    [coll EXCEPT ![id] = [@ EXCEPT !.consumed = TRUE, !.updated_at = Datetime(t)]]

\* lines 113-134
VerifyResponse(d, outcome) ==
    IF outcome = "verified"
    THEN [status |-> 200, detail |-> "verified", token |-> TRUE, doc_id |-> d.id]
    ELSE IF outcome = "Internal Server Error"
    THEN [status |-> 500, detail |-> outcome, token |-> FALSE, doc_id |-> 0]
    ELSE [status |-> 400, detail |-> outcome, token |-> FALSE, doc_id |-> 0]

\* the request names the identifier and the code the last send-otp answered with
NamesSent(body) ==
    /\ sent.status = 200
    /\ strip(body.identifier) = strip(sent.identifier)
    /\ body.otp = sent.debug_code

AfterUpdate_Swallowed(outcome, updateFails) == outcome

\* lines 129-134: an exception of update_one leaves the handler before the token
\* is made
AfterUpdate(outcome, updateFails) ==
    IF outcome = "verified" /\ updateFails THEN "Internal Server Error" ELSE outcome

VerifyFinish(w) ==
    /\ pc[w] = "found"
    /\ \E updateFails \in BOOLEAN :
       LET checked == VerifyOutcome(doc[w], now)
           outcome == AfterUpdate(checked, updateFails)
       IN  /\ otp' = IF checked = "verified" /\ ~updateFails
                     THEN update_one(otp, doc[w].id, now)
                     ELSE otp
           /\ resp' = [resp EXCEPT ![w] = VerifyResponse(doc[w], outcome)]
           /\ sinceSent' = IF NamesSent(req[w]) /\ sinceSent = "none"
                           THEN (IF outcome = "verified" THEN "ok" ELSE "failed")
                           ELSE sinceSent
    /\ pc' = [pc EXCEPT ![w] = "idle"]
    /\ doc' = [doc EXCEPT ![w] = NoDoc]
    /\ UNCHANGED <<dbConfigured, emailStrRaises, now, req, sent, phone>>

\* ------------------------------------------------------------------- clock
Tick ==
    /\ \E t \in Instants : t > now /\ now' = t
    /\ UNCHANGED <<dbConfigured, emailStrRaises, otp, pc, req, doc, resp, sent, sinceSent, phone>>

VerifyFindAny == \E w \in Workers : VerifyFind(w)
VerifyFinishAny == \E w \in Workers : VerifyFinish(w)

Next == SendOtp \/ VerifyFindAny \/ VerifyFinishAny \/ Tick

Spec == Init /\ [][Next]_vars

\* is_valid_phone called on its own
CheckPhone ==
    /\ \E value \in PhoneInputs :
         phone' = [called |-> TRUE, value |-> value, result |-> is_valid_phone(value)]
    /\ UNCHANGED <<dbConfigured, emailStrRaises, otp, now, pc, req, doc, resp, sent, sinceSent>>

PhoneSpec == Init /\ [][CheckPhone]_vars

\* requests served one at a time
AllIdle == \A w \in Workers : pc[w] = "idle"
SeqSendOtp == AllIdle /\ SendOtp
SeqVerifyFind == AllIdle /\ VerifyFindAny

SeqNext == SeqSendOtp \/ SeqVerifyFind \/ VerifyFinishAny \/ Tick

SeqSpec == Init /\ [][SeqNext]_vars

\* ------------------------------------------------------------- properties
\* steps of one verify-otp request
Looking(w) == pc[w] = "idle" /\ pc'[w] = "found"
Finishing(w) == pc[w] = "found" /\ pc'[w] = "idle"

\* a send-otp request was answered in this step
SendStep == sent' # sent \/ Len(otp') # Len(otp)

IssuedBySendOtp(r) == r.expires_at.kind = "datetime"
OnlyIssuedRecords == \A i \in DOMAIN otp : IssuedBySendOtp(otp[i])

\* unconsumed and unexpired at the current time
Usable(r) == ~r.consumed /\ IssuedBySendOtp(r) /\ now <= r.expires_at.t

\* the record carries the submitted code and the submitted identifier, trimmed,
\* as given or lower-cased
ReqMatches(r, body) ==
    /\ r.code = body.otp
    /\ r.identifier \in {strip(body.identifier), lower(strip(body.identifier))}

NoRecordFor(body) == \A i \in DOMAIN otp : ~ReqMatches(otp[i], body)

\* local-part@domain with a dot inside the domain, no whitespace
EmailSyntax(s) ==
    /\ \A i \in DOMAIN s : s[i] \notin Whitespace
    /\ Cardinality({i \in DOMAIN s : s[i] = "@"}) = 1
    /\ \E k \in DOMAIN s :
         /\ s[k] = "@"
         /\ k > 1
         /\ \E j \in (k + 2)..(Len(s) - 1) : s[j] = "."

\* an optional '+' followed by 10 to 15 digits
PhoneSyntax(s) ==
    LET digits == IF s # <<>> /\ Head(s) = "+" THEN Tail(s) ELSE s
    IN  /\ Len(digits) \in 10..15
        /\ \A i \in DOMAIN digits : digits[i] \in AsciiDigits

ValidFor(identifier, via) ==
    IF via = "email" THEN EmailSyntax(strip(identifier)) ELSE PhoneSyntax(strip(identifier))

\* C1: two verify-otp requests that race on the same record never both return
\* {status: verified, token}: no two workers hold a verified response for the
\* same record.
C1_OneWinner ==
    \A v, w \in Workers :
        (v # w /\ resp[v].status = 200 /\ resp[w].status = 200)
            => resp[v].doc_id # resp[w].doc_id

\* C2: with requests served one at a time and only records issued by send-otp in
\* the store, the first verify-otp naming the identifier and code of the last
\* successful send-otp, made within the expiry window, succeeds (unless the store
\* fails: 500); once it has succeeded, every later one fails with "Code already
\* used".
C2_FreshCodeVerifiesOnce ==
    [][\A w \in Workers :
         (Finishing(w) /\ NamesSent(req[w]) /\ OnlyIssuedRecords) =>
            /\ (sinceSent = "none" /\ now <= otp[Len(otp)].expires_at.t)
                   => resp'[w].status \in {200, 500}
            /\ sinceSent = "ok" => resp'[w].detail = "Code already used"]_vars

\* C3 (as amended): a verify-otp that selected a record and checks it at a time
\* strictly later than its expires_at returns no token; it fails with "Code
\* expired" when the record was unconsumed at lookup and with "Code already
\* used" when it was consumed.
C3_ExpiredNeverVerifies ==
    [][\A w \in Workers :
         (/\ Finishing(w)
          /\ doc[w] # NoDoc
          /\ doc[w].expires_at.kind = "datetime"
          /\ now > doc[w].expires_at.t) =>
            /\ resp'[w].status = 400
            /\ ~resp'[w].token
            /\ resp'[w].detail =
                 IF doc[w].consumed THEN "Code already used" ELSE "Code expired"]_vars

\* C3 (as stated): such a verify-otp fails with "Code expired", whether or not the
\* record was consumed before.
C3_ExpiredAlwaysCodeExpired ==
    [][\A w \in Workers :
         (/\ Finishing(w)
          /\ doc[w] # NoDoc
          /\ doc[w].expires_at.kind = "datetime"
          /\ now > doc[w].expires_at.t) =>
            /\ resp'[w].status = 400
            /\ ~resp'[w].token
            /\ resp'[w].detail = "Code expired"]_vars

\* a request was answered "Code expired" for an unconsumed record past its expiry
C3_Witness ==
    \E w \in Workers :
        /\ pc[w] = "idle"
        /\ resp[w].detail = "Code expired"
        /\ ~NoRecordFor(req[w])
        /\ \A i \in DOMAIN otp :
             ReqMatches(otp[i], req[w]) =>
                /\ IssuedBySendOtp(otp[i])
                /\ ~otp[i].consumed
                /\ now > otp[i].expires_at.t

\* C4: with requests served one at a time, whenever the store holds an unconsumed,
\* unexpired record, verify-otp with that record's identifier and code succeeds
\* (unless the store fails: 500), whatever other records exist.
C4_UsableRecordVerifies ==
    [][\A w \in Workers :
         (/\ Finishing(w)
          /\ OnlyIssuedRecords
          /\ \E i \in DOMAIN otp :
               /\ Usable(otp[i])
               /\ otp[i].identifier = req[w].identifier
               /\ otp[i].code = req[w].otp) =>
            resp'[w].status \in {200, 500}]_vars

\* C5: with requests served one at a time, a code issued for an email identifier is
\* accepted when submitted with a variant of it that differs in letter case and
\* surrounding whitespace, and a code issued for a phone identifier when submitted
\* with the same phone identifier, while the record is unconsumed and unexpired
\* (unless the store fails: 500).
C5_VariantAccepted ==
    [][\A w \in Workers :
         (/\ Finishing(w)
          /\ OnlyIssuedRecords
          /\ \E i \in DOMAIN otp :
               /\ Usable(otp[i])
               /\ otp[i].code = req[w].otp
               /\ \/ /\ otp[i].via = "email"
                     /\ EmailSyntax(otp[i].identifier)
                     /\ lower(strip(req[w].identifier)) = otp[i].identifier
                  \/ /\ otp[i].via = "phone"
                     /\ strip(req[w].identifier) = otp[i].identifier) =>
            resp'[w].status \in {200, 500}]_vars

\* C6: a send-otp whose identifier is invalid for its channel is answered 400 and
\* leaves the store unchanged (calls that end in a storage error aside).
C6_InvalidIdentifierRejected ==
    [][(SendStep /\ ~ValidFor(sent'.identifier, sent'.via) /\ sent'.status # 500) =>
          (sent'.status = 400 /\ otp' = otp)]_vars

\* C7: the identifier stored by a successful send-otp is the trimmed input,
\* lower-cased for email and as submitted for phone.
C7_StoredIdentifierNormalized ==
    [][Len(otp') = Len(otp) + 1 =>
          /\ sent'.status = 200
          /\ otp'[Len(otp')].via = sent'.via
          /\ otp'[Len(otp')].identifier =
               IF sent'.via = "email"
               THEN lower(strip(sent'.identifier))
               ELSE strip(sent'.identifier)]_vars

\* a mixed-case, padded email was stored lower-cased and trimmed
C7_Witness ==
    /\ sent.status = 200
    /\ sent.via = "email"
    /\ sent.identifier = EmailMixed
    /\ otp # <<>>
    /\ otp[Len(otp)].identifier = EmailLower
    /\ otp[Len(otp)].identifier # sent.identifier

\* C8: when no record carries the submitted code together with the submitted
\* identifier (as given or lower-cased), the lookup finds nothing, and a
\* verify-otp that found nothing fails with "Invalid code", returns no token and
\* leaves every record unchanged.
C8_NoMatchInvalidCode ==
    [][\A w \in Workers :
         /\ (Looking(w) /\ NoRecordFor(req'[w])) => doc'[w] = NoDoc
         /\ (Finishing(w) /\ doc[w] = NoDoc) =>
               /\ resp'[w].status = 400
               /\ resp'[w].detail = "Invalid code"
               /\ ~resp'[w].token
               /\ otp' = otp]_vars

\* a request was answered "Invalid code" although the identifier has a record,
\* under another code
C8_Witness ==
    \E w \in Workers :
        /\ pc[w] = "idle"
        /\ resp[w].detail = "Invalid code"
        /\ NoRecordFor(req[w])
        /\ \E i \in DOMAIN otp :
             /\ otp[i].identifier = lower(strip(req[w].identifier))
             /\ otp[i].code # req[w].otp

\* a stored expiry that is missing, empty or a string that does not parse
Malformed(e) == e.kind = "none" \/ (e.kind = "str" /\ ~fromisoformat(e).ok)

\* C9: a verify-otp that selected an unconsumed record with a malformed stored
\* expiry fails with "Code expired", returns no token and does not mark the record
\* consumed.
C9_MalformedExpiryIsExpired ==
    [][\A w \in Workers :
         (/\ Finishing(w)
          /\ doc[w] # NoDoc
          /\ ~doc[w].consumed
          /\ Malformed(doc[w].expires_at)) =>
            /\ resp'[w].status = 400
            /\ resp'[w].detail = "Code expired"
            /\ ~resp'[w].token
            /\ otp' = otp]_vars

\* C10: a send-otp that passes validation and persists nothing is answered 500,
\* and a send-otp answered 500 carries no code and leaves the store unchanged.
C10_StorageErrorNoCode ==
    [][SendStep =>
          /\ (sent'.status # 400 /\ Len(otp') = Len(otp))
                => (sent'.status = 500 /\ sent'.debug_code = NoCode)
          /\ sent'.status = 500 => (sent'.debug_code = NoCode /\ otp' = otp)]_vars

\* a write failed on a configured store: 500, no code, nothing stored
C10_Witness ==
    /\ dbConfigured
    /\ sent.status = 500
    /\ sent.debug_code = NoCode
    /\ otp = <<>>

\* a worker holds the answer of a finished verify-otp request
Answered(w) == pc[w] = "idle" /\ resp[w].status # 0

\* the store holds a record of this identifier, trimmed, as given or lower-cased
HasRecordsOf(identifier) ==
    \E i \in DOMAIN otp :
        otp[i].identifier \in {strip(identifier), lower(strip(identifier))}

\* C11: a record is unconsumed when it is created, and a consumed record stays
\* consumed: no step of send-otp or verify-otp, in any interleaving, sets
\* consumed back to false.
C11_ConsumedMonotone ==
    [][/\ \A i \in DOMAIN otp :
            i \in DOMAIN otp' /\ (otp[i].consumed => otp'[i].consumed)
       /\ \A i \in DOMAIN otp' \ DOMAIN otp : ~otp'[i].consumed]_vars

\* two requests raced on one record and both wrote to it: it is still consumed
C11_Witness ==
    \E v, w \in Workers :
        /\ v # w
        /\ resp[v].status = 200 /\ resp[w].status = 200
        /\ resp[v].doc_id = resp[w].doc_id
        /\ otp[resp[v].doc_id].consumed

\* C12: is_valid_phone accepts its argument exactly when the argument, trimmed,
\* is an optional '+' followed by 10 to 15 of the digits 0-9 and nothing else.
C12_PhoneAcceptedIffSyntax ==
    phone.called => (phone.result <=> PhoneSyntax(strip(phone.value)))

\* C13: a verify-otp for an identifier that has no record at all and a verify-otp
\* for an identifier that has records, none with the submitted code, are answered
\* with the same status and the same message.
C13_NoEnumeration ==
    \A v, w \in Workers :
        (/\ Answered(v) /\ Answered(w)
         /\ ~HasRecordsOf(req[v].identifier)
         /\ HasRecordsOf(req[w].identifier) /\ NoRecordFor(req[w])) =>
            /\ resp[v].status = resp[w].status
            /\ resp[v].detail = resp[w].detail

C13_Witness ==
    \E v, w \in Workers :
        /\ Answered(v) /\ Answered(w)
        /\ ~HasRecordsOf(req[v].identifier)
        /\ HasRecordsOf(req[w].identifier) /\ NoRecordFor(req[w])
        /\ resp[v].detail = "Invalid code" /\ resp[w].detail = "Invalid code"

\* a step of a verify-otp request of worker w: its lookup, its answer
VerifyStep(w) == Looking(w) \/ Finishing(w) \/ resp'[w] # resp[w]

SameFixedFields(r, s) ==
    /\ r.identifier = s.identifier
    /\ r.via = s.via
    /\ r.code = s.code
    /\ r.expires_at = s.expires_at

\* C14: a send-otp answered with "sent" adds exactly one record, unconsumed and
\* expiring 10 minutes after the time of issuance, and leaves every record that
\* was in the store as it was.
C14_SendAddsOneRecord ==
    [][(SendStep /\ sent'.status = 200) =>
         /\ Len(otp') = Len(otp) + 1
         /\ \A i \in DOMAIN otp : otp'[i] = otp[i]
         /\ ~otp'[Len(otp')].consumed
         /\ otp'[Len(otp')].expires_at = Datetime(now + 10)]_vars

\* a second send-otp for an identifier whose first record was consumed meanwhile
C14_Witness ==
    /\ sent.status = 200
    /\ Len(otp) = 2
    /\ otp[1].identifier = otp[2].identifier
    /\ otp[1].consumed /\ ~otp[2].consumed
    /\ otp[2].expires_at.kind = "datetime" /\ otp[2].expires_at.t > TTL_MINUTES

\* C15: a step of verify-otp changes at most one record, and of that record only
\* consumed and updated_at; a verify-otp that fails (400 or 500) leaves the store
\* as it was.
C15_VerifyFrame ==
    [][\A w \in Workers :
         VerifyStep(w) =>
            /\ Len(otp') = Len(otp)
            /\ Cardinality({i \in DOMAIN otp : otp'[i] # otp[i]}) <= 1
            /\ \A i \in DOMAIN otp : SameFixedFields(otp'[i], otp[i])
            /\ (resp'[w].status # 200 => otp' = otp)]_vars

\* a verified request consumed its record and left the other record, of the same
\* identifier and code, unconsumed
C15_Witness ==
    \E w \in Workers :
        /\ resp[w].status = 200
        /\ Len(otp) = 2
        /\ otp[resp[w].doc_id].consumed
        /\ \E j \in DOMAIN otp :
             /\ j # resp[w].doc_id
             /\ ReqMatches(otp[j], req[w])
             /\ ~otp[j].consumed

\* C16: verify-otp checks for no match first, then consumed, then expired: a
\* selected record that is consumed is answered "Code already used" whatever its
\* expiry, also when it has expired.
C16_ConsumedBeforeExpired ==
    [][\A w \in Workers :
         Finishing(w) =>
            /\ (doc[w] = NoDoc => resp'[w].detail = "Invalid code")
            /\ (doc[w] # NoDoc /\ doc[w].consumed) =>
                   /\ resp'[w].status = 400
                   /\ resp'[w].detail = "Code already used"]_vars

\* every record the request matches is consumed and expired, and the answer was
\* "Code already used"
C16_Witness ==
    \E w \in Workers :
        /\ Answered(w)
        /\ resp[w].detail = "Code already used"
        /\ \A i \in DOMAIN otp :
             ReqMatches(otp[i], req[w]) =>
                /\ otp[i].consumed
                /\ otp[i].expires_at.kind = "datetime"
                /\ now > otp[i].expires_at.t

\* C17: no step of send-otp or verify-otp removes a record, and the identifier,
\* channel, code and expires_at of every record stay what they were.
C17_RecordsKept ==
    [][\A i \in DOMAIN otp :
         i \in DOMAIN otp' /\ SameFixedFields(otp'[i], otp[i])]_vars

\* a store that send-otp filled and in which verify-otp consumed a record
C17_Witness ==
    /\ Len(otp) = MaxRecords
    /\ sent.status = 200
    /\ \E i \in DOMAIN otp : otp[i].consumed /\ otp[i].updated_at.t > 0

\* C18: a verified response is held only for a record that carries the submitted
\* code and whose identifier is the submitted one, trimmed, as given or
\* lower-cased: a code issued for another identifier is never accepted.
C18_VerifiedOnlyForOwnRecord ==
    \A w \in Workers :
        resp[w].status = 200 =>
            /\ resp[w].doc_id \in DOMAIN otp
            /\ ReqMatches(otp[resp[w].doc_id], req[w])

\* verified for the phone number while the e-mail record with the same code is
\* left unconsumed
C18_Witness ==
    \E w \in Workers :
        /\ resp[w].status = 200
        /\ req[w].identifier = PhoneOk
        /\ otp[resp[w].doc_id].identifier = PhoneOk
        /\ \E j \in DOMAIN otp :
             /\ otp[j].identifier = EmailLower
             /\ otp[j].code = req[w].otp
             /\ ~otp[j].consumed

\* C19: a verify-otp is answered with a token only in a step in which update_one
\* has set consumed on the selected record; when update_one raises, the answer
\* carries no token.
C19_UpdateBeforeToken ==
    [][\A w \in Workers :
         (Finishing(w) /\ (resp'[w].token \/ resp'[w].status = 200)) =>
            /\ doc[w] # NoDoc
            /\ resp'[w].doc_id = doc[w].id
            /\ otp'[doc[w].id].consumed
            /\ otp'[doc[w].id].updated_at = Datetime(now)]_vars

\* update_one raised: the record passed every check, is still unconsumed, and
\* the answer is a 500 without token
C19_Witness ==
    \E w \in Workers :
        /\ Answered(w)
        /\ resp[w].status = 500 /\ ~resp[w].token
        /\ dbConfigured
        /\ OnlyIssuedRecords
        /\ \E i \in DOMAIN otp : ReqMatches(otp[i], req[w])
        /\ \A i \in DOMAIN otp : ReqMatches(otp[i], req[w]) => Usable(otp[i])

\* C20: the expiry comparison is strict: a verify-otp made at exactly expires_at
\* on an unconsumed record is not answered "Code expired" (it verifies, unless
\* the store fails), and "Code expired" for a record with a timestamp is answered
\* only at a time strictly later than expires_at.
C20_ExpiryStrict ==
    [][\A w \in Workers :
         (/\ Finishing(w)
          /\ doc[w] # NoDoc
          /\ doc[w].expires_at.kind = "datetime") =>
             /\ (~doc[w].consumed /\ now = doc[w].expires_at.t)
                    => resp'[w].status \in {200, 500}
             /\ resp'[w].detail = "Code expired" => now > doc[w].expires_at.t]_vars

\* a record consumed at the very instant it expires
C20_Witness ==
    \E w \in Workers :
        /\ resp[w].status = 200
        /\ otp[resp[w].doc_id].expires_at.kind = "datetime"
        /\ otp[resp[w].doc_id].updated_at.t = otp[resp[w].doc_id].expires_at.t
        /\ now = otp[resp[w].doc_id].expires_at.t
====
